---------------------------- MODULE Spec2Model ----------------------------
(***************************************************************************)
(* A model of the DKIM signer and verifier of src/src/lib.rs and           *)
(* src/src/sign.rs.                                                        *)
(*                                                                         *)
(* Strings are sequences of one-character strings, so that the case        *)
(* folding, splitting, suffix tests and number parsing of the code are     *)
(* computed and not assumed.  Digests and signatures are symbolic terms.   *)
(***************************************************************************)
EXTENDS Integers, Sequences, FiniteSets, TLC

VARIABLES
    op,          \* which entrypoint this behaviour exercises
    pc,          \* position of the call: "call", "loop", "signed", "done"
    value,       \* validate_header: the raw header value handed in
    now,         \* the clock read by chrono::Utc::now()
    validated,   \* validate_header: its return value
    from_domain, \* verifier: the caller-supplied domain
    email,       \* verifier / signer: the parsed mail
    public_key,  \* verify_email_with_key: the supplied key
    dns,         \* verify_email_with_resolver: the TXT zone behind the resolver
    idx,         \* verifier: index of the next DKIM-Signature header of the loop
    last_error,  \* verifier: the local last_error
    result,      \* verifier: the value returned by the call
    trace,       \* verifier: what was done for each examined header, in order
    signer,      \* signer: the DKIMSigner under test
    signed       \* signer: the value returned by sign

vars == <<op, pc, value, now, validated, from_domain, email, public_key, dns,
          idx, last_error, result, trace, signer, signed>>

---------------------------------------------------------------------------
(* Option and Result values *)

None == [some |-> FALSE]
Some(v) == [some |-> TRUE, val |-> v]
Ok(v) == [ok |-> TRUE, val |-> v]
Err(e) == [ok |-> FALSE, err |-> e]
NotCalled == [ok |-> FALSE, err |-> [kind |-> "not called"]]

(* DKIMError variants used by the two source files *)
SignatureSyntaxError == [kind |-> "SignatureSyntaxError"]
SignatureMissingRequiredTag(name) == [kind |-> "SignatureMissingRequiredTag", tag |-> name]
IncompatibleVersion == [kind |-> "IncompatibleVersion"]
DomainMismatch == [kind |-> "DomainMismatch"]
FromFieldNotSigned == [kind |-> "FromFieldNotSigned"]
UnsupportedQueryMethod == [kind |-> "UnsupportedQueryMethod"]
SignatureExpired == [kind |-> "SignatureExpired"]
UnsupportedHashAlgorithm == [kind |-> "UnsupportedHashAlgorithm"]
BodyHashDidNotVerify == [kind |-> "BodyHashDidNotVerify"]
SignatureDidNotVerify == [kind |-> "SignatureDidNotVerify"]
KeyUnavailable == [kind |-> "KeyUnavailable"]
KeyRevoked == [kind |-> "KeyRevoked"]
BuilderError == [kind |-> "BuilderError"]

---------------------------------------------------------------------------
(* Strings *)

UpperChars == <<"A","B","C","D","E","F","G","H","I","J","K","L","M",
                "N","O","P","Q","R","S","T","U","V","W","X","Y","Z">>
LowerChars == <<"a","b","c","d","e","f","g","h","i","j","k","l","m",
                "n","o","p","q","r","s","t","u","v","w","x","y","z">>
DigitChars == <<"0","1","2","3","4","5","6","7","8","9">>

(* char::to_lowercase on the letters of the alphabet *)
LowerOf == [c \in {UpperChars[k] : k \in 1..Len(UpperChars)} |->
               LowerChars[CHOOSE k \in 1..Len(UpperChars) : UpperChars[k] = c]]

to_lowercase_char(c) == IF c \in DOMAIN LowerOf THEN LowerOf[c] ELSE c

to_lowercase(s) == [k \in 1..Len(s) |-> to_lowercase_char(s[k])]

ends_with(s, suffix) ==
    /\ Len(suffix) <= Len(s)
    /\ SubSeq(s, Len(s) - Len(suffix) + 1, Len(s)) = suffix

RECURSIVE split(_, _)
split(s, sep) ==
    IF \A k \in 1..Len(s) : s[k] # sep
    THEN <<s>>
    ELSE LET k == CHOOSE j \in 1..Len(s) :
                      s[j] = sep /\ \A m \in 1..(j - 1) : s[m] # sep
         IN  <<SubSeq(s, 1, k - 1)>> \o split(SubSeq(s, k + 1, Len(s)), sep)

contains(list, s) == \E k \in 1..Len(list) : list[k] = s

DigitValue(c) == (CHOOSE k \in 1..Len(DigitChars) : DigitChars[k] = c) - 1
IsDigit(c) == \E k \in 1..Len(DigitChars) : DigitChars[k] = c

RECURSIVE DecimalValue(_)
DecimalValue(s) ==
    IF s = <<>> THEN 0
    ELSE 10 * DecimalValue(SubSeq(s, 1, Len(s) - 1)) + DigitValue(s[Len(s)])

(* str::parse::<i64>: an optional sign, then one or more decimal digits *)
parse_i64(s) ==
    LET neg == s # <<>> /\ s[1] = "-"
        body == IF s # <<>> /\ s[1] \in {"-", "+"} THEN Tail(s) ELSE s
    IN  IF body = <<>> \/ \E k \in 1..Len(body) : ~IsDigit(body[k])
        THEN Err("ParseIntError")
        ELSE Ok(IF neg THEN 0 - DecimalValue(body) ELSE DecimalValue(body))

unwrap_or_default(r) == IF r.ok THEN r.val ELSE 0

---------------------------------------------------------------------------
(* Tag lists and DKIMHeader *)

(* A raw header value is the sequence of its tag-specs, each a name and a   *)
(* value, or a text the tag-list grammar rejects.                           *)
Tag(name, v) == [name |-> name, value |-> v]
RawValue(specs) == [syntax_ok |-> TRUE, specs |-> specs]
Unparsable == [syntax_ok |-> FALSE, specs |-> <<>>]

tag_list(v) == IF v.syntax_ok THEN Ok(v.specs) ELSE Err(SignatureSyntaxError)

REQUIRED_TAGS == <<"v", "a", "b", "bh", "d", "h", "s">>

IndexMapInsert_firstWins(map, tag) ==
    IF \E k \in 1..Len(map) : map[k].name = tag.name THEN map ELSE Append(map, tag)

(* IndexMap::insert: a new key is appended, a known key keeps its place and *)
(* takes the new value.                                                     *)
IndexMapInsert(map, tag) ==
    IF \E k \in 1..Len(map) : map[k].name = tag.name
    THEN [k \in 1..Len(map) |-> IF map[k].name = tag.name THEN tag ELSE map[k]]
    ELSE Append(map, tag)

RECURSIVE IndexMapFrom(_)
IndexMapFrom(tags) ==
    IF tags = <<>> THEN <<>>
    ELSE IndexMapInsert(IndexMapFrom(SubSeq(tags, 1, Len(tags) - 1)), tags[Len(tags)])

get_tag(header, name) ==
    IF \E k \in 1..Len(header.tags) : header.tags[k].name = name
    THEN Some(header.tags[CHOOSE k \in 1..Len(header.tags) : header.tags[k].name = name].value)
    ELSE None

(* Only called for tags validate_header has found present. *)
get_required_tag(header, name) == get_tag(header, name).val

---------------------------------------------------------------------------
(* validate_header *)

SIGN_EXPIRATION_DRIFT_MINS == 15
SecondsPerMinute == 60

Str_1 == <<"1">>
Str_from == <<"f","r","o","m">>
Str_dns_txt == <<"d","n","s","/","t","x","t">>

MissingRequired_lastAbsent(tags) ==
    LET absent == {k \in 1..Len(REQUIRED_TAGS) :
                       \A j \in 1..Len(tags) : tags[j].name # REQUIRED_TAGS[k]}
    IN  IF absent = {} THEN None
        ELSE Some(SignatureMissingRequiredTag(
                 REQUIRED_TAGS[CHOOSE k \in absent : \A j \in absent : j <= k]))

(* lib.rs 127-138: the first required tag, in the order of REQUIRED_TAGS,   *)
(* whose name is not in the set of tag names.                               *)
MissingRequired(tags) ==
    LET tag_names == {tags[j].name : j \in 1..Len(tags)}
        absent == {k \in 1..Len(REQUIRED_TAGS) : REQUIRED_TAGS[k] \notin tag_names}
    IN  IF absent = {} THEN None
        ELSE Some(SignatureMissingRequiredTag(
                 REQUIRED_TAGS[CHOOSE k \in absent : \A j \in absent : k <= j]))

VersionCheck_skipped(header) == None

(* lib.rs 150-156 *)
VersionCheck(header) ==
    IF get_required_tag(header, "v") # Str_1 THEN Some(IncompatibleVersion) ELSE None

DomainCheck_ignoringCase(header) ==
    LET user == get_tag(header, "i")
    IN  IF user.some /\ ~ends_with(to_lowercase(user.val),
                                   to_lowercase(get_required_tag(header, "d")))
        THEN Some(DomainMismatch) ELSE None

(* lib.rs 158-166 *)
DomainCheck(header) ==
    LET user == get_tag(header, "i")
    IN  IF user.some /\ ~ends_with(user.val, get_required_tag(header, "d"))
        THEN Some(DomainMismatch) ELSE None

FromCheck_substring(header) ==
    LET v == to_lowercase(get_required_tag(header, "h"))
    IN  IF \A k \in 1..(Len(v) - 3) : SubSeq(v, k, k + 3) # Str_from
        THEN Some(FromFieldNotSigned) ELSE None

(* lib.rs 168-176 *)
FromCheck(header) ==
    LET v == get_required_tag(header, "h")
        parts == split(v, ":")
        headers == [k \in 1..Len(parts) |-> to_lowercase(parts[k])]
    IN  IF ~contains(headers, Str_from) THEN Some(FromFieldNotSigned) ELSE None

(* lib.rs 178-182 *)
QueryMethodCheck(header) ==
    LET query_method == get_tag(header, "q")
    IN  IF query_method.some /\ query_method.val # Str_dns_txt
        THEN Some(UnsupportedQueryMethod) ELSE None

ExpirationCheck_noDrift(header, clock) ==
    LET expiration == get_tag(header, "x")
    IN  IF expiration.some /\ clock > unwrap_or_default(parse_i64(expiration.val))
        THEN Some(SignatureExpired) ELSE None

(* lib.rs 190-203, time feature enabled.  Every timestamp of the model is   *)
(* one chrono can represent, so from_timestamp_opt yields Some.             *)
ExpirationCheck(header, clock) ==
    LET x == get_tag(header, "x")
    IN  IF ~x.some THEN None
        ELSE LET expiration == unwrap_or_default(parse_i64(x.val))
                                   + SIGN_EXPIRATION_DRIFT_MINS * SecondsPerMinute
             IN  IF clock > expiration THEN Some(SignatureExpired) ELSE None

(* lib.rs 123-206 *)
validate_header(v, clock) ==
    LET parsed == tag_list(v)
    IN  IF ~parsed.ok THEN Err(SignatureSyntaxError)
        ELSE IF MissingRequired(parsed.val).some THEN Err(MissingRequired(parsed.val).val)
        ELSE LET header == [tags |-> IndexMapFrom(parsed.val), raw_bytes |-> v]
             IN  IF VersionCheck(header).some THEN Err(VersionCheck(header).val)
                 ELSE IF DomainCheck(header).some THEN Err(DomainCheck(header).val)
                 ELSE IF FromCheck(header).some THEN Err(FromCheck(header).val)
                 ELSE IF QueryMethodCheck(header).some THEN Err(QueryMethodCheck(header).val)
                 ELSE IF ExpirationCheck(header, clock).some
                      THEN Err(ExpirationCheck(header, clock).val)
                 ELSE Ok(header)

---------------------------------------------------------------------------
(* Collaborators: canonicalization, hashing, base64, keys.                  *)
(* Digests and signatures are symbolic terms over what they were computed  *)
(* from: two digests are equal exactly when their inputs are.              *)

Str_simple == <<"s","i","m","p","l","e">>
Str_relaxed == <<"r","e","l","a","x","e","d">>
Str_rsa_sha1 == <<"r","s","a","-","s","h","a","1">>
Str_rsa_sha256 == <<"r","s","a","-","s","h","a","2","5","6">>
Str_ed25519_sha256 == <<"e","d","2","5","5","1","9","-","s","h","a","2","5","6">>

(* canonicalization::Type::to_string *)
canonicalization_to_string(t) == IF t = "Relaxed" THEN Str_relaxed ELSE Str_simple

canonicalization_from_string(str) ==
    IF str = Str_simple THEN Ok("Simple")
    ELSE IF str = Str_relaxed THEN Ok("Relaxed")
    ELSE Err(SignatureSyntaxError)

(* parser::parse_canonicalization: "header/body", a bare "header" leaving  *)
(* the body simple, an absent c= giving simple/simple.                      *)
parse_canonicalization(c) ==
    IF ~c.some THEN Ok(<<"Simple", "Simple">>)
    ELSE LET parts == split(c.val, "/")
             hc == canonicalization_from_string(parts[1])
             bc == IF Len(parts) = 1 THEN Ok("Simple")
                   ELSE canonicalization_from_string(parts[2])
         IN  IF Len(parts) > 2 \/ ~hc.ok \/ ~bc.ok THEN Err(SignatureSyntaxError)
             ELSE Ok(<<hc.val, bc.val>>)

(* parser::parse_hash_algo *)
parse_hash_algo(a) ==
    IF a = Str_rsa_sha1 THEN Ok("RsaSha1")
    ELSE IF a = Str_rsa_sha256 THEN Ok("RsaSha256")
    ELSE IF a = Str_ed25519_sha256 THEN Ok("Ed25519Sha256")
    ELSE Err(UnsupportedHashAlgorithm)

DigestOf(hash_algo) == IF hash_algo = "RsaSha1" THEN "sha1" ELSE "sha256"

(* A body is its text, whether its lines end in white space and whether   *)
(* empty lines follow it.  Simple canonicalization drops the trailing      *)
(* empty lines, relaxed also the white space at the end of lines.          *)
canonicalize_body(t, body) ==
    [text |-> body.text,
     line_end_wsp |-> IF t = "Relaxed" THEN FALSE ELSE body.line_end_wsp,
     trailing_empty_lines |-> FALSE]

(* hash::compute_body_hash: the base64 text of the digest of the           *)
(* canonicalized body, cut to l= octets when l= is given.                   *)
compute_body_hash(t, length, hash_algo, mail) ==
    LET canon == canonicalize_body(t, mail.body)
    IN  Ok(<<DigestOf(hash_algo), canon.text,
             IF canon.line_end_wsp THEN "wsp" ELSE "",
             IF canon.trailing_empty_lines THEN "crlf" ELSE "">>
           \o (IF length.some THEN <<"l=">> \o length.val ELSE <<>>))

(* Header canonicalization: simple keeps the line, relaxed lower-cases     *)
(* the name.                                                                *)
canonicalize_header(t, line) ==
    IF t = "Relaxed" THEN [line EXCEPT !.name = to_lowercase(@)] ELSE line

(* The headers h= selects: for each name of h=, left to right, the last    *)
(* occurrence in the mail not yet taken; nothing when none is left.         *)
RECURSIVE select_headers(_, _, _)
select_headers(names, headers, taken) ==
    IF names = <<>> THEN <<>>
    ELSE LET free == {k \in 1..Len(headers) :
                         /\ k \notin taken
                         /\ to_lowercase(headers[k].name) = to_lowercase(names[1])}
         IN  IF free = {} THEN select_headers(Tail(names), headers, taken)
             ELSE LET k == CHOOSE j \in free : \A m \in free : m <= j
                  IN  <<headers[k]>> \o select_headers(Tail(names), headers, taken \cup {k})

(* The raw DKIM-Signature value with the payload of b= removed. *)
strip_b(raw) ==
    [raw EXCEPT !.specs =
        [k \in 1..Len(raw.specs) |->
            IF raw.specs[k].name = "b" THEN Tag("b", <<>>) ELSE raw.specs[k]]]

(* hash::compute_headers_hash: the digest of the selected headers and of   *)
(* the DKIM-Signature header itself, b= emptied.                            *)
compute_headers_hash(t, h, hash_algo, dkim_header, mail) ==
    LET selected == select_headers(split(h, ":"), mail.headers, {})
    IN  Ok([digest |-> DigestOf(hash_algo),
            headers |-> [k \in 1..Len(selected) |-> canonicalize_header(t, selected[k])],
            dkim |-> [canon |-> t, raw |-> strip_b(dkim_header.raw_bytes)]])

(* Keys: a key pair is named by its id; the public half carries the same   *)
(* id and type.                                                             *)
RsaPrivateKey(id) == [variant |-> "Rsa", id |-> id]
Ed25519PrivateKey(id) == [variant |-> "Ed25519", id |-> id]
PublicKeyOf(private_key) == private_key

(* Pkcs1v15Sign over the digest / ed25519 Signer::sign *)
rsa_sign(private_key, scheme, msg) ==
    [signer |-> private_key.id, scheme |-> scheme, msg |-> msg, len |-> 256]
ed25519_sign(private_key, msg) ==
    [signer |-> private_key.id, scheme |-> "ed25519", msg |-> msg, len |-> 64]
(* Bytes that are no signature of anything. *)
RawBytes(n) == [signer |-> "nobody", scheme |-> "none", msg |-> "none", len |-> n]

rsa_verify(key, scheme, msg, signature) ==
    signature.signer = key.id /\ signature.scheme = scheme /\ signature.msg = msg
ed25519_verify_strict(key, msg, signature) ==
    signature.signer = key.id /\ signature.scheme = "ed25519" /\ signature.msg = msg

(* base64: the text of encoded bytes is the marker "b64" and the bytes;    *)
(* any other text decodes when all its characters are of the alphabet.     *)
Base64Marker == "b64"
base64_encode(bytes) == <<Base64Marker, bytes>>
IsBase64Char(c) ==
    \/ IsDigit(c)
    \/ \E k \in 1..Len(UpperChars) : c = UpperChars[k] \/ c = LowerChars[k]
    \/ c \in {"+", "/", "="}
base64_decode(text) ==
    IF Len(text) = 2 /\ text[1] = Base64Marker THEN Ok(text[2])
    ELSE IF \A k \in 1..Len(text) : IsBase64Char(text[k])
         THEN Ok(RawBytes((Len(text) * 3) \div 4))
    ELSE Err(SignatureSyntaxError)

---------------------------------------------------------------------------
(* Public keys *)

Str_rsa == <<"r","s","a">>
Str_ed25519 == <<"e","d","2","5","5","1","9">>
Str_DKIM1 == <<"D","K","I","M","1">>

(* Key bytes: their format, their length and the key they encode. *)
KeyBytes(format, len, key) == [format |-> format, len |-> len, key |-> key]

(* lib.rs 59-67: DkimPublicKey::to_vec *)
to_vec(key) ==
    IF key.variant = "Ed25519" THEN KeyBytes("ed25519-raw", 32, key)
    ELSE KeyBytes("pkcs1-der", 140, key)

(* lib.rs 70-75: DkimPublicKey::key_type *)
key_type(key) == IF key.variant = "Ed25519" THEN Str_ed25519 ELSE Str_rsa

(* lib.rs 89-93 *)
parse_rsa_key(bytes) ==
    IF bytes.format = "pkcs1-der" THEN Ok(bytes.key) ELSE Err(KeyUnavailable)

(* lib.rs 95-105 *)
parse_ed25519_key(bytes) ==
    IF bytes.len # 32 THEN Err(KeyUnavailable)
    ELSE IF bytes.format = "ed25519-raw" THEN Ok(bytes.key)
    ELSE Err(KeyUnavailable)

try_from_bytes_caseSensitive(bytes, kt) ==
    IF kt = Str_rsa THEN parse_rsa_key(bytes)
    ELSE IF kt = Str_ed25519 THEN parse_ed25519_key(bytes)
    ELSE Err(KeyUnavailable)

(* lib.rs 78-87: DkimPublicKey::try_from_bytes *)
try_from_bytes(bytes, kt) ==
    IF to_lowercase(kt) = Str_rsa THEN parse_rsa_key(bytes)
    ELSE IF to_lowercase(kt) = Str_ed25519 THEN parse_ed25519_key(bytes)
    ELSE Err(KeyUnavailable)

(* lib.rs 209-236 *)
verify_signature(hash_algo, header_hash, signature, key) ==
    IF key.variant = "Rsa"
    THEN IF hash_algo = "RsaSha1"
         THEN Ok(rsa_verify(key, "pkcs1v15-sha1", header_hash, signature))
         ELSE IF hash_algo = "RsaSha256"
         THEN Ok(rsa_verify(key, "pkcs1v15-sha256", header_hash, signature))
         ELSE Err(UnsupportedHashAlgorithm)
    ELSE IF signature.len # 64 THEN Err(SignatureSyntaxError)
         ELSE Ok(ed25519_verify_strict(key, header_hash, signature))

(* The TXT zone: what lookup_txt answers for the one selector record of    *)
(* the model, sel._domainkey.ex.net; every other name has no record.        *)
DNS_NAMESPACE == <<"_","d","o","m","a","i","n","k","e","y">>

TxtRecord(v, k, p) == [v |-> v, k |-> k, p |-> p]

ZoneRecords(zone) ==
    CASE zone = "rsa" ->
            <<TxtRecord(Some(Str_DKIM1), None, base64_encode(to_vec(RsaPrivateKey("k1"))))>>
      [] zone = "ed25519" ->
            <<TxtRecord(Some(Str_DKIM1), Some(Str_ed25519),
                        base64_encode(to_vec(Ed25519PrivateKey("k2"))))>>
      [] zone = "revoked" -> <<TxtRecord(Some(Str_DKIM1), None, <<>>)>>
      [] zone = "malformed" -> <<TxtRecord(Some(Str_DKIM1), None, <<"!","!">>)>>
      [] OTHER -> <<>>

lookup_txt(zone, name) ==
    IF to_lowercase(name)
         = <<"s","e","l",".">> \o DNS_NAMESPACE \o <<".","e","x",".","n","e","t">>
    THEN Ok(ZoneRecords(zone)) ELSE Ok(<<>>)

(* public_key::retrieve_public_key *)
retrieve_public_key(zone, domain, selector) ==
    LET name == selector \o <<".">> \o DNS_NAMESPACE \o <<".">> \o domain
        txt == lookup_txt(zone, name)
    IN  IF ~txt.ok THEN txt
        ELSE IF txt.val = <<>> THEN Err(KeyUnavailable)
        ELSE LET rec == txt.val[1]
                 bytes == base64_decode(rec.p)
             IN  IF rec.v.some /\ rec.v.val # Str_DKIM1 THEN Err(KeyUnavailable)
                 ELSE IF rec.p = <<>> THEN Err(KeyRevoked)
                 ELSE IF ~bytes.ok THEN Err(KeyUnavailable)
                 ELSE try_from_bytes(bytes.val, IF rec.k.some THEN rec.k.val ELSE Str_rsa)

---------------------------------------------------------------------------
(* The verifier *)

(* result::DKIMResult *)
Pass(domain, hc, bc) ==
    [kind |-> "pass", domain |-> domain, header_canon |-> hc, body_canon |-> bc]
Fail(e, domain) == [kind |-> "fail", error |-> e, domain |-> domain]
Neutral(domain) == [kind |-> "neutral", domain |-> domain]

(* What one pass of a verifier loop ends in. *)
Recorded(e, steps) == [kind |-> "recorded", error |-> e, steps |-> steps]
Skipped(steps) == [kind |-> "skipped", steps |-> steps]
Returned(r, steps) == [kind |-> "returned", result |-> r, steps |-> steps]

(* lib.rs 239-287: verify_email_header, with the steps it went through *)
verify_email_header(zone, dkim_header, mail) ==
    LET key == retrieve_public_key(zone, get_required_tag(dkim_header, "d"),
                                   get_required_tag(dkim_header, "s"))
        canon == parse_canonicalization(get_tag(dkim_header, "c"))
        hash_algo == parse_hash_algo(get_required_tag(dkim_header, "a"))
        computed_body_hash ==
            compute_body_hash(canon.val[2], get_tag(dkim_header, "l"), hash_algo.val, mail)
        computed_headers_hash ==
            compute_headers_hash(canon.val[1], get_required_tag(dkim_header, "h"),
                                 hash_algo.val, dkim_header, mail)
        signature == base64_decode(get_required_tag(dkim_header, "b"))
        verified == verify_signature(hash_algo.val, computed_headers_hash.val,
                                     signature.val, key.val)
        s1 == <<"retrieve_public_key">>
        s2 == Append(s1, "parse_canonicalization")
        s3 == Append(s2, "parse_hash_algo")
        s4 == Append(s3, "compute_body_hash")
        s5 == Append(s4, "compute_headers_hash")
        s6 == Append(s5, "compare_body_hash")
        s7 == Append(s6, "decode_signature")
        s8 == Append(s7, "verify_signature")
    IN  IF ~key.ok THEN [res |-> key, steps |-> s1]
        ELSE IF ~canon.ok THEN [res |-> canon, steps |-> s2]
        ELSE IF ~hash_algo.ok THEN [res |-> hash_algo, steps |-> s3]
        ELSE IF ~computed_body_hash.ok THEN [res |-> computed_body_hash, steps |-> s4]
        ELSE IF ~computed_headers_hash.ok THEN [res |-> computed_headers_hash, steps |-> s5]
        ELSE IF get_required_tag(dkim_header, "bh") # computed_body_hash.val
             THEN [res |-> Err(BodyHashDidNotVerify), steps |-> s6]
        ELSE IF ~signature.ok THEN [res |-> signature, steps |-> s7]
        ELSE IF ~verified.ok THEN [res |-> verified, steps |-> s8]
        ELSE IF ~verified.val THEN [res |-> Err(SignatureDidNotVerify), steps |-> s8]
        ELSE [res |-> Ok(canon.val), steps |-> s8]

(* The DKIM-Signature headers of a mail, in document order. *)
HEADER == <<"D","K","I","M","-","S","i","g","n","a","t","u","r","e">>

get_all_headers(mail, name) ==
    SelectSeq(mail.headers, LAMBDA h : to_lowercase(h.name) = to_lowercase(name))

DomainSelected_exact(signing_domain, domain) == signing_domain = domain

(* lib.rs 314 and 379: the signature is the sender's *)
DomainSelected(signing_domain, domain) ==
    to_lowercase(signing_domain) = to_lowercase(domain)

ResolverIteration_lookupBeforeDomain(raw, domain, mail, zone, clock) ==
    LET checked == validate_header(raw, clock)
        dkim_header == checked.val
        signing_domain == get_required_tag(dkim_header, "d")
        verified == verify_email_header(zone, dkim_header, mail)
        s0 == <<"validate_header">>
    IN  IF ~checked.ok THEN Recorded(checked.err, s0)
        ELSE IF ~DomainSelected(signing_domain, domain)
             THEN Skipped(Append(s0, "retrieve_public_key"))
        ELSE IF verified.res.ok
             THEN Returned(Ok(Pass(signing_domain, verified.res.val[1], verified.res.val[2])),
                           s0 \o verified.steps)
        ELSE Recorded(verified.res.err, s0 \o verified.steps)

(* lib.rs 300-331: one pass of the loop of verify_email_with_resolver *)
ResolverIteration(raw, domain, mail, zone, clock) ==
    LET checked == validate_header(raw, clock)
        dkim_header == checked.val
        signing_domain == get_required_tag(dkim_header, "d")
        verified == verify_email_header(zone, dkim_header, mail)
        s0 == <<"validate_header">>
    IN  IF ~checked.ok THEN Recorded(checked.err, s0)
        ELSE IF ~DomainSelected(signing_domain, domain) THEN Skipped(s0)
        ELSE IF verified.res.ok
             THEN Returned(Ok(Pass(signing_domain, verified.res.val[1], verified.res.val[2])),
                           s0 \o verified.steps)
        ELSE Recorded(verified.res.err, s0 \o verified.steps)

(* lib.rs 365-426: one pass of the loop of verify_email_with_key *)
KeyIteration(raw, domain, mail, key, clock) ==
    LET checked == validate_header(raw, clock)
        dkim_header == checked.val
        signing_domain == get_required_tag(dkim_header, "d")
        canon == parse_canonicalization(get_tag(dkim_header, "c"))
        hash_algo == parse_hash_algo(get_required_tag(dkim_header, "a"))
        computed_body_hash ==
            compute_body_hash(canon.val[2], get_tag(dkim_header, "l"), hash_algo.val, mail)
        computed_header_hash ==
            compute_headers_hash(canon.val[1], get_required_tag(dkim_header, "h"),
                                 hash_algo.val, dkim_header, mail)
        signature == base64_decode(get_required_tag(dkim_header, "b"))
        verified == verify_signature(hash_algo.val, computed_header_hash.val,
                                     signature.val, key)
        s0 == <<"validate_header">>
        s2 == Append(s0, "parse_canonicalization")
        s3 == Append(s2, "parse_hash_algo")
        s4 == Append(s3, "compute_body_hash")
        s5 == Append(s4, "compute_headers_hash")
        s6 == Append(s5, "compare_body_hash")
        s7 == Append(s6, "decode_signature")
        s8 == Append(s7, "verify_signature")
    IN  IF ~checked.ok THEN Recorded(checked.err, s0)
        ELSE IF ~DomainSelected(signing_domain, domain) THEN Skipped(s0)
        ELSE IF ~canon.ok THEN Returned(canon, s2)
        ELSE IF ~hash_algo.ok THEN Returned(hash_algo, s3)
        ELSE IF ~computed_body_hash.ok THEN Returned(computed_body_hash, s4)
        ELSE IF ~computed_header_hash.ok THEN Returned(computed_header_hash, s5)
        ELSE IF get_required_tag(dkim_header, "bh") # computed_body_hash.val
             THEN Returned(Err(BodyHashDidNotVerify), s6)
        ELSE IF ~signature.ok THEN Returned(signature, s7)
        ELSE IF ~verified.ok THEN Returned(verified, s8)
        ELSE IF ~verified.val THEN Returned(Err(SignatureDidNotVerify), s8)
        ELSE Returned(Ok(Pass(signing_domain, canon.val[1], canon.val[2])), s8)

(* lib.rs 334-338 and 429-433 *)
AfterLoop(error, domain) ==
    IF error.some THEN Ok(Fail(error.val, domain)) ELSE Ok(Neutral(domain))

(* lib.rs 356-434: the whole call, the remaining headers being sigs *)
RECURSIVE verify_email_with_key_from(_, _, _, _, _, _)
verify_email_with_key_from(sigs, error, domain, mail, key, clock) ==
    IF sigs = <<>> THEN AfterLoop(error, domain)
    ELSE LET out == KeyIteration(sigs[1].value, domain, mail, key, clock)
         IN  IF out.kind = "returned" THEN out.result
             ELSE verify_email_with_key_from(
                      Tail(sigs),
                      IF out.kind = "recorded" THEN Some(out.error) ELSE error,
                      domain, mail, key, clock)

verify_email_with_key(domain, mail, key, clock) ==
    verify_email_with_key_from(get_all_headers(mail, HEADER), None, domain, mail, key, clock)

---------------------------------------------------------------------------
(* The signer *)

RECURSIVE to_string(_)
(* i64::to_string of a number that is not negative *)
to_string(n) ==
    IF n < 10 THEN <<DigitChars[n + 1]>>
    ELSE Append(to_string(n \div 10), DigitChars[(n % 10) + 1])

RECURSIVE join(_, _)
join(list, sep) ==
    IF list = <<>> THEN <<>>
    ELSE IF Len(list) = 1 THEN list[1]
    ELSE list[1] \o <<sep>> \o join(Tail(list), sep)

(* header::DKIMHeaderBuilder: the tags so far and the time, once set *)
DKIMHeaderBuilder_new == [tags |-> <<>>, time |-> None]

add_tag(builder, name, v) ==
    [builder EXCEPT !.tags = IndexMapInsert(@, Tag(name, v))]

(* The names are written in lower case, as the h= of sign.rs 309 and 362.   *)
set_signed_headers(builder, headers) ==
    add_tag(builder, "h", join([k \in 1..Len(headers) |-> to_lowercase(headers[k])], ":"))

set_time(builder, time) ==
    add_tag([builder EXCEPT !.time = Some(time)], "t", to_string(time))

set_expiry(builder, duration) ==
    IF ~builder.time.some THEN Err(BuilderError)
    ELSE Ok(add_tag(builder, "x", to_string(builder.time.val + duration)))

build(builder) == Ok([tags |-> builder.tags, raw_bytes |-> RawValue(builder.tags)])

HashAlgoName(hash_algo) ==
    CASE hash_algo = "RsaSha1" -> Str_rsa_sha1
      [] hash_algo = "RsaSha256" -> Str_rsa_sha256
      [] hash_algo = "Ed25519Sha256" -> Str_ed25519_sha256

dkim_header_builder_clockTime(s, body_hash, clock) ==
    LET builder ==
            set_signed_headers(
                add_tag(add_tag(add_tag(add_tag(add_tag(add_tag(DKIMHeaderBuilder_new,
                    "v", Str_1),
                    "a", HashAlgoName(s.hash_algo)),
                    "d", s.signing_domain),
                    "s", s.selector),
                    "c", canonicalization_to_string(s.header_canonicalization) \o <<"/">>
                             \o canonicalization_to_string(s.body_canonicalization)),
                    "bh", body_hash),
                s.signed_headers)
        expiring == IF s.expiry.some THEN set_expiry(builder, s.expiry.val) ELSE Ok(builder)
    IN  IF ~expiring.ok THEN expiring
        ELSE Ok(set_time(expiring.val, clock))

(* sign.rs 199-236: dkim_header_builder *)
dkim_header_builder(s, body_hash, clock) ==
    LET builder ==
            set_signed_headers(
                add_tag(add_tag(add_tag(add_tag(add_tag(add_tag(DKIMHeaderBuilder_new,
                    "v", Str_1),
                    "a", HashAlgoName(s.hash_algo)),
                    "d", s.signing_domain),
                    "s", s.selector),
                    "c", canonicalization_to_string(s.header_canonicalization) \o <<"/">>
                             \o canonicalization_to_string(s.body_canonicalization)),
                    "bh", body_hash),
                s.signed_headers)
        expiring == IF s.expiry.some THEN set_expiry(builder, s.expiry.val) ELSE Ok(builder)
    IN  IF ~expiring.ok THEN expiring
        ELSE Ok(set_time(expiring.val, IF s.time.some THEN s.time.val ELSE clock))

(* sign.rs 247-266: compute_header_hash *)
compute_header_hash(s, mail, builder) ==
    LET dkim_header == build(add_tag(builder, "b", <<>>))
    IN  IF ~dkim_header.ok THEN dkim_header
        ELSE compute_headers_hash(s.header_canonicalization,
                                  get_required_tag(dkim_header.val, "h"),
                                  s.hash_algo, dkim_header.val, mail)

(* sign.rs 175-189 *)
SignatureOf(s, header_hash) ==
    IF s.private_key.variant = "Rsa"
    THEN IF s.hash_algo = "RsaSha1"
         THEN Ok(rsa_sign(s.private_key, "pkcs1v15-sha1", header_hash))
         ELSE IF s.hash_algo = "RsaSha256"
         THEN Ok(rsa_sign(s.private_key, "pkcs1v15-sha256", header_hash))
         ELSE Err(UnsupportedHashAlgorithm)
    ELSE Ok(ed25519_sign(s.private_key, header_hash))

(* sign.rs 169-197: sign; the line returned is its name and its value *)
sign(s, mail, clock) ==
    LET body_hash == compute_body_hash(s.body_canonicalization, None, s.hash_algo, mail)
        builder == dkim_header_builder(s, body_hash.val, clock)
        header_hash == compute_header_hash(s, mail, builder.val)
        signature == SignatureOf(s, header_hash.val)
        dkim_header == build(add_tag(builder.val, "b", base64_encode(signature.val)))
    IN  IF ~body_hash.ok THEN body_hash
        ELSE IF ~builder.ok THEN builder
        ELSE IF ~header_hash.ok THEN header_hash
        ELSE IF ~signature.ok THEN signature
        ELSE IF ~dkim_header.ok THEN dkim_header
        ELSE Ok([name |-> HEADER, value |-> dkim_header.val.raw_bytes])

DKIMSigner_rsaSha1(signed_headers, private_key, selector, signing_domain, hc, bc, expiry, time) ==
    [built |-> TRUE,
     signed_headers |-> signed_headers,
     private_key |-> private_key,
     selector |-> selector,
     signing_domain |-> signing_domain,
     header_canonicalization |-> hc,
     body_canonicalization |-> bc,
     expiry |-> expiry,
     hash_algo |-> IF private_key.variant = "Rsa" THEN "RsaSha1" ELSE "Ed25519Sha256",
     time |-> time]

(* sign.rs 110-141: what build() makes of a builder with every field set *)
DKIMSigner(signed_headers, private_key, selector, signing_domain, hc, bc, expiry, time) ==
    [built |-> TRUE,
     signed_headers |-> signed_headers,
     private_key |-> private_key,
     selector |-> selector,
     signing_domain |-> signing_domain,
     header_canonicalization |-> hc,
     body_canonicalization |-> bc,
     expiry |-> expiry,
     hash_algo |-> IF private_key.variant = "Rsa" THEN "RsaSha256" ELSE "Ed25519Sha256",
     time |-> time]

---------------------------------------------------------------------------
(* Inputs of validate_header *)

Str_3 == <<"3">>
Str_sel == <<"s","e","l">>
Str_ex_net == <<"e","x",".","n","e","t">>
Str_EX_NET == <<"E","X",".","N","E","T">>
Str_other_org == <<"o","t","h","e","r",".","o","r","g">>
Str_b64 == <<"Z","m","9","v">>
Str_from_to == <<"f","r","o","m",":","t","o">>
Str_From_B == <<"F","r","o","m",":","B">>
Str_to_FROM == <<"t","o",":","F","R","O","M">>
Str_Subject_A_B == <<"S","u","b","j","e","c","t",":","A",":","B">>
Str_fromage_to == <<"f","r","o","m","a","g","e",":","t","o">>
Str_u_at_ex_net == <<"u","@","e","x",".","n","e","t">>
Str_u_at_eng_ex_net == <<"u","@","e","n","g",".","e","x",".","n","e","t">>
Str_u_at_hein_com == <<"u","@","h","e","i","n",".","c","o","m">>
Str_u_at_EX_NET == <<"u","@","E","X",".","N","E","T">>
Str_u_at_net == <<"u","@","n","e","t">>
Str_u_at_badex_net == <<"u","@","b","a","d","e","x",".","n","e","t">>
Str_dns_other == <<"d","n","s","/","o","t","h","e","r">>
Str_1000 == <<"1","0","0","0">>
Str_1001 == <<"1","0","0","1">>
Str_abc == <<"a","b","c">>

(* The tags a header may carry, in the order they are written. *)
FieldNames == <<"v", "a", "d", "s", "q", "i", "x", "h", "bh", "b">>
Fields == {FieldNames[k] : k \in 1..Len(FieldNames)}

(* The header every input is a variation of: the one of the tests of       *)
(* lib.rs 486-561 without its optional tags.                                *)
BaseChoice ==
    [f \in Fields |->
        CASE f = "v" -> Some(Str_1)
          [] f = "a" -> Some(Str_rsa_sha256)
          [] f = "d" -> Some(Str_ex_net)
          [] f = "s" -> Some(Str_sel)
          [] f = "h" -> Some(Str_from_to)
          [] f = "bh" -> Some(Str_b64)
          [] f = "b" -> Some(Str_b64)
          [] OTHER -> None]

Alternatives(f) ==
    CASE f = "v" -> {None, Some(Str_3)}
      [] f = "a" -> {None}
      [] f = "d" -> {None, Some(Str_EX_NET)}
      [] f = "s" -> {None}
      [] f = "q" -> {Some(Str_dns_txt), Some(Str_dns_other)}
      [] f = "i" -> {Some(Str_u_at_ex_net), Some(Str_u_at_eng_ex_net),
                     Some(Str_u_at_hein_com), Some(Str_u_at_EX_NET), Some(Str_u_at_net),
                     Some(Str_u_at_badex_net)}
      [] f = "x" -> {Some(Str_1000), Some(Str_1001), Some(Str_abc)}
      [] f = "h" -> {None, Some(Str_From_B), Some(Str_to_FROM),
                     Some(Str_Subject_A_B), Some(Str_fromage_to)}
      [] f = "bh" -> {None}
      [] f = "b" -> {None}

(* How many tags of an input differ from the base header. *)
MaxDeviations == 3

OptTag(f, choice) == IF choice.some THEN <<Tag(f, choice.val)>> ELSE <<>>

(* The tag-spec sequences for the fields from the k-th on, with at most    *)
(* budget of them differing from the base header.                           *)
RECURSIVE HeaderSpecsFrom(_, _)
HeaderSpecsFrom(k, budget) ==
    IF k > Len(FieldNames) THEN {<<>>}
    ELSE LET f == FieldNames[k]
         IN  {OptTag(f, BaseChoice[f]) \o rest : rest \in HeaderSpecsFrom(k + 1, budget)}
             \cup
             (IF budget = 0 THEN {}
              ELSE UNION {{OptTag(f, alt) \o rest : rest \in HeaderSpecsFrom(k + 1, budget - 1)}
                          : alt \in Alternatives(f)})

(* A tag given a second time, before the others or after them. *)
RepeatedTags ==
    {Tag("v", Str_1), Tag("v", Str_3), Tag("d", Str_ex_net), Tag("d", Str_other_org),
     Tag("i", Str_u_at_ex_net), Tag("i", Str_u_at_hein_com),
     Tag("h", Str_from_to), Tag("h", Str_Subject_A_B),
     Tag("q", Str_dns_txt), Tag("q", Str_dns_other),
     Tag("x", Str_1000), Tag("x", Str_abc)}

RepeatingSpecs ==
    UNION {{<<t>> \o specs, specs \o <<t>>} : specs \in HeaderSpecsFrom(1, 1), t \in RepeatedTags}

HeaderValues ==
    {RawValue(specs) : specs \in HeaderSpecsFrom(1, MaxDeviations) \cup RepeatingSpecs}
    \cup {Unparsable}

ClockValues == {900, 901, 1000, 1900, 1901, 1902, 4000}

NoEmail == [headers |-> <<>>, body |-> "none"]
NoSigner == [built |-> FALSE]

IdleVerifier ==
    /\ from_domain = <<>>
    /\ email = NoEmail
    /\ public_key = None
    /\ dns = "none"
    /\ idx = 0
    /\ last_error = None
    /\ result = NotCalled
    /\ trace = <<>>

IdleSigner ==
    /\ signer = NoSigner
    /\ signed = NotCalled

InitValidate ==
    /\ op = "validate_header"
    /\ pc = "call"
    /\ value \in HeaderValues
    /\ now \in ClockValues
    /\ validated = NotCalled
    /\ IdleVerifier
    /\ IdleSigner

(* One call of validate_header(value) at clock now. *)
ValidateHeader ==
    /\ op = "validate_header"
    /\ pc = "call"
    /\ validated' = validate_header(value, now)
    /\ pc' = "done"
    /\ UNCHANGED <<op, value, now, from_domain, email, public_key, dns, idx,
                   last_error, result, trace, signer, signed>>

NextValidate == ValidateHeader

SpecValidate == InitValidate /\ [][NextValidate]_vars

---------------------------------------------------------------------------
(* Properties of validate_header *)

ValidateDone == op = "validate_header" /\ pc = "done"

(* What the input says, read off the tag-specs themselves. *)
Present(name) == \E j \in 1..Len(value.specs) : value.specs[j].name = name
LastValue(name) ==
    value.specs[CHOOSE j \in 1..Len(value.specs) :
                    /\ value.specs[j].name = name
                    /\ \A m \in (j + 1)..Len(value.specs) : value.specs[m].name # name].value
AllRequiredPresent ==
    /\ value.syntax_ok
    /\ \A name \in {"v", "a", "b", "bh", "d", "h", "s"} : Present(name)
Rejected(e) == ~validated.ok /\ validated.err = e

(* s = p \o t for some p *)
IsSuffixOf(t, s) == \E p \in 0..Len(s) : s = SubSeq(s, 1, p) \o t

(* The text after the last "@", the whole text when it has none. *)
DomainPart(s) ==
    LET ats == {k \in 1..Len(s) : s[k] = "@"}
    IN  IF ats = {} THEN s
        ELSE SubSeq(s, (CHOOSE k \in ats : \A j \in ats : j <= k) + 1, Len(s))

EqualIgnoringCase(s, t) ==
    /\ Len(s) = Len(t)
    /\ \A k \in 1..Len(s) : to_lowercase_char(s[k]) = to_lowercase_char(t[k])

(* Some maximal ":"-free stretch of s equals "from" ignoring case. *)
HasFromElement(s) ==
    \E a \in 1..(Len(s) + 1) : \E b \in 0..Len(s) :
        /\ a = 1 \/ s[a - 1] = ":"
        /\ b = Len(s) \/ s[b + 1] = ":"
        /\ \A k \in a..b : s[k] # ":"
        /\ EqualIgnoringCase(SubSeq(s, a, b), <<"f","r","o","m">>)

(* The i=/d= relation the check of lib.rs 160-166 enforces. *)
IdentityConsistent == Present("i") => IsSuffixOf(LastValue("d"), LastValue("i"))

C7_MissingRequiredTag ==
    ValidateDone /\ value.syntax_ok =>
        LET absent == {k \in 1..Len(REQUIRED_TAGS) : ~Present(REQUIRED_TAGS[k])}
        IN  /\ absent # {} =>
                \E k \in absent :
                    /\ \A j \in absent : k <= j
                    /\ Rejected(SignatureMissingRequiredTag(REQUIRED_TAGS[k]))
            /\ absent = {} =>
                (validated.ok \/ validated.err.kind # "SignatureMissingRequiredTag")

(* Two required tags absent from a header that also has the wrong version:  *)
(* the first absent tag is reported.                                        *)
C7_Witness ==
    /\ ValidateDone /\ value.syntax_ok
    /\ ~Present("d") /\ ~Present("s") /\ Present("v") /\ LastValue("v") # <<"1">>
    /\ Rejected(SignatureMissingRequiredTag("d"))

C9_FromSigned ==
    ValidateDone /\ AllRequiredPresent =>
        /\ validated.ok => HasFromElement(LastValue("h"))
        /\ (/\ LastValue("v") = <<"1">>
            /\ IdentityConsistent
            /\ ~HasFromElement(LastValue("h")))
           => Rejected(FromFieldNotSigned)

(* An accepted header whose From is written in capitals and is not first. *)
C9_Witness ==
    /\ ValidateDone /\ validated.ok
    /\ LastValue("h") = Str_to_FROM

(* C10: for a header with all seven required tags the result is             *)
(* IncompatibleVersion exactly when v= is not "1", whatever the later       *)
(* checks would say, and every accepted header has v=1.                     *)
C10_IncompatibleVersion ==
    ValidateDone /\ AllRequiredPresent =>
        /\ Rejected(IncompatibleVersion) <=> LastValue("v") # <<"1">>
        /\ validated.ok => LastValue("v") = <<"1">>

(* v=3 in a header whose i= and h= are wrong too. *)
C10_Witness ==
    /\ ValidateDone /\ AllRequiredPresent
    /\ LastValue("v") = Str_3
    /\ Present("i") /\ LastValue("i") = Str_u_at_hein_com
    /\ LastValue("h") = Str_Subject_A_B
    /\ Rejected(IncompatibleVersion)

---------------------------------------------------------------------------
(* Inputs of the verifier *)

Name_From == <<"F","r","o","m">>
Name_Subject == <<"S","u","b","j","e","c","t">>
Str_rsa_md5 == <<"r","s","a","-","m","d","5">>

Line(name, v) == [name |-> name, value |-> v]
Text(t) == [text |-> t]

(* The mail as it was signed, and the body another mail would have. *)
CoreHeaders == <<Line(Name_From, Text("joe@ex.net")), Line(Name_Subject, Text("hi"))>>
CoreBody == [text |-> "hello", line_end_wsp |-> FALSE, trailing_empty_lines |-> TRUE]
OtherBody == [text |-> "bye", line_end_wsp |-> FALSE, trailing_empty_lines |-> FALSE]
CoreMail == [headers |-> CoreHeaders, body |-> CoreBody]

SignerFor(private_key, domain, hc, bc) ==
    DKIMSigner(<<Name_From, Name_Subject>>, private_key, Str_sel, domain, hc, bc, None, None)

(* The value of the DKIM-Signature a signer of the domain puts on CoreMail *)
SignatureBy(private_key, domain, hc, bc) ==
    sign(SignerFor(private_key, domain, hc, bc), CoreMail, 1000).val.value

(* A value with one tag rewritten, appended when it was absent, or removed *)
WithTag(raw, name, v) ==
    RawValue(IF \E k \in 1..Len(raw.specs) : raw.specs[k].name = name
             THEN [k \in 1..Len(raw.specs) |->
                      IF raw.specs[k].name = name THEN Tag(name, v) ELSE raw.specs[k]]
             ELSE Append(raw.specs, Tag(name, v)))
WithoutTag(raw, name) == RawValue(SelectSeq(raw.specs, LAMBDA t : t.name # name))

GoodRsa == SignatureBy(RsaPrivateKey("k1"), Str_ex_net, "Simple", "Simple")

SignatureValues ==
    { GoodRsa,
      SignatureBy(Ed25519PrivateKey("k2"), Str_ex_net, "Relaxed", "Relaxed"),
      SignatureBy(RsaPrivateKey("k1"), Str_EX_NET, "Relaxed", "Simple"),
      SignatureBy(RsaPrivateKey("k1"), Str_other_org, "Simple", "Simple"),
      WithTag(GoodRsa, "v", Str_3),
      WithoutTag(SignatureBy(RsaPrivateKey("k1"), Str_other_org, "Simple", "Simple"), "h"),
      Unparsable,
      WithTag(GoodRsa, "bh",
              compute_body_hash("Simple", None, "RsaSha256",
                                [headers |-> CoreHeaders, body |-> OtherBody]).val),
      WithTag(GoodRsa, "b", <<"!", "!">>),
      SignatureBy(RsaPrivateKey("k3"), Str_ex_net, "Simple", "Simple"),
      WithTag(GoodRsa, "a", Str_rsa_md5),
      WithTag(GoodRsa, "c", Str_abc) }

(* How many DKIM-Signature headers a mail carries at most. *)
MaxSigs == 2

RECURSIVE SeqsUpTo(_, _)
SeqsUpTo(S, n) ==
    IF n = 0 THEN {<<>>}
    ELSE LET shorter == SeqsUpTo(S, n - 1)
         IN  shorter \cup {Append(q, x) : q \in shorter, x \in S}

Mails ==
    {[headers |-> [k \in 1..Len(q) |-> Line(HEADER, q[k])] \o CoreHeaders, body |-> CoreBody]
        : q \in SeqsUpTo(SignatureValues, MaxSigs)}

Zones == {"rsa", "ed25519", "revoked", "malformed", "empty"}
SuppliedKeys == {PublicKeyOf(RsaPrivateKey("k1")), PublicKeyOf(Ed25519PrivateKey("k2"))}

IdleValidate ==
    /\ value = Unparsable
    /\ validated = NotCalled

InitVerify ==
    /\ email \in Mails
    /\ op \in {"verify_email_with_resolver", "verify_email_with_key"}
    /\ pc = "loop"
    /\ now = 1000
    /\ from_domain \in {Str_ex_net, Str_EX_NET}
    /\ IF op = "verify_email_with_key"
       THEN public_key \in {Some(k) : k \in SuppliedKeys} /\ dns = "none"
       ELSE public_key = None /\ dns \in Zones
    /\ idx = 1
    /\ last_error = None
    /\ result = NotCalled
    /\ trace = <<>>
    /\ IdleValidate
    /\ IdleSigner

Signatures == get_all_headers(email, HEADER)

UpdateLastError_clearedBySkip(out, error) ==
    IF out.kind = "recorded" THEN Some(out.error) ELSE None

(* lib.rs 305-309, 314-316, 326-330: what a pass leaves in last_error *)
UpdateLastError(out, error) ==
    IF out.kind = "recorded" THEN Some(out.error) ELSE error

(* The bookkeeping both loops share: a pass either returns from the call   *)
(* or moves on to the next header.                                          *)
LoopStep(out) ==
    /\ trace' = Append(trace, [index |-> idx, kind |-> out.kind, steps |-> out.steps,
                               last_error |-> UpdateLastError(out, last_error)])
    /\ IF out.kind = "returned"
       THEN /\ result' = out.result
            /\ pc' = "done"
            /\ UNCHANGED <<idx, last_error>>
       ELSE /\ last_error' = UpdateLastError(out, last_error)
            /\ idx' = idx + 1
            /\ UNCHANGED <<result, pc>>
    /\ UNCHANGED <<op, value, now, validated, from_domain, email, public_key, dns,
                   signer, signed>>

LoopEnd ==
    /\ result' = AfterLoop(last_error, from_domain)
    /\ pc' = "done"
    /\ UNCHANGED <<op, value, now, validated, from_domain, email, public_key, dns,
                   idx, last_error, trace, signer, signed>>

(* lib.rs 299-332 *)
ResolverLoop ==
    /\ op = "verify_email_with_resolver" /\ pc = "loop"
    /\ idx <= Len(Signatures)
    /\ LoopStep(ResolverIteration(Signatures[idx].value, from_domain, email, dns, now))

(* lib.rs 334-338 *)
ResolverReturn ==
    /\ op = "verify_email_with_resolver" /\ pc = "loop"
    /\ idx > Len(Signatures)
    /\ LoopEnd

(* lib.rs 364-427 *)
KeyLoop ==
    /\ op = "verify_email_with_key" /\ pc = "loop"
    /\ idx <= Len(Signatures)
    /\ LoopStep(KeyIteration(Signatures[idx].value, from_domain, email, public_key.val, now))

(* lib.rs 429-433 *)
KeyReturn ==
    /\ op = "verify_email_with_key" /\ pc = "loop"
    /\ idx > Len(Signatures)
    /\ LoopEnd

NextVerify == ResolverLoop \/ ResolverReturn \/ KeyLoop \/ KeyReturn

SpecVerify == InitVerify /\ [][NextVerify]_vars

---------------------------------------------------------------------------
(* Properties of the verifier *)

Verifying == op \in {"verify_email_with_resolver", "verify_email_with_key"}
VerifyDone == Verifying /\ pc = "done"

(* What one pass over the k-th DKIM-Signature header ends in, whatever     *)
(* came before it.                                                          *)
OutcomeOf(k) ==
    IF op = "verify_email_with_key"
    THEN KeyIteration(Signatures[k].value, from_domain, email, public_key.val, now)
    ELSE ResolverIteration(Signatures[k].value, from_domain, email, dns, now)

(* The k-th signature passes validation, is of the caller's domain and     *)
(* verifies fully.                                                          *)
VerifiesFully(k) ==
    /\ OutcomeOf(k).kind = "returned"
    /\ OutcomeOf(k).result.ok
    /\ OutcomeOf(k).result.val.kind = "pass"

(* The k-th signature fails: in validation, or being of the caller's       *)
(* domain, in verification.                                                 *)
FailsWith(k) ==
    LET out == OutcomeOf(k)
    IN  IF out.kind = "recorded" THEN Some(out.error)
        ELSE IF out.kind = "returned" /\ ~out.result.ok THEN Some(out.result.err)
        ELSE None

(* The error of the last failing signature among the first k, if any. *)
RECURSIVE LastFailure(_)
LastFailure(k) ==
    IF k = 0 THEN None
    ELSE LET failure == FailsWith(k)
         IN  IF failure.some THEN failure ELSE LastFailure(k - 1)

(* C2: in both entrypoints a failure of one signature is not returned as   *)
(* Err: the call returns Ok, and Ok(Fail) or Ok(Neutral) only with every   *)
(* DKIM-Signature header examined.                                          *)
C2_FailuresCaptured ==
    VerifyDone =>
        /\ result.ok
        /\ result.val.kind \in {"fail", "neutral"} => Len(trace) = Len(Signatures)

(* C3: when some signature verifies fully, the call returns Pass for the   *)
(* first such signature in document order, whatever the signatures before  *)
(* it did, and examines none after it.                                      *)
C3_FirstVerifyingPasses ==
    VerifyDone =>
        \A k \in 1..Len(Signatures) :
            (VerifiesFully(k) /\ \A j \in 1..(k - 1) : ~VerifiesFully(j)) =>
                /\ result = OutcomeOf(k).result
                /\ Len(trace) = k
                /\ \A j \in 1..k : trace[j].index = j

OfAnotherDomain(k) ==
    /\ validate_header(Signatures[k].value, now).ok
    /\ \A j \in 1..Len(Signatures[k].value.specs) :
           Signatures[k].value.specs[j].name = "d" =>
               ~EqualIgnoringCase(Signatures[k].value.specs[j].value, from_domain)

(* C5: a header that passes validate_header with d= differing from         *)
(* from_domain ignoring case is skipped with nothing but the validation    *)
(* done and last_error as it was; a mail with only such signatures yields  *)
(* Neutral; d= differing only in letter case is not skipped.                *)
C5_OtherDomainSkipped ==
    /\ VerifyDone =>
        \A k \in 1..Len(trace) :
            LET other == OfAnotherDomain(k)
            IN  /\ other =>
                    /\ trace[k].kind = "skipped"
                    /\ trace[k].steps = <<"validate_header">>
                    /\ trace[k].last_error =
                           IF k = 1 THEN None ELSE trace[k - 1].last_error
                /\ trace[k].kind = "skipped" => other
    /\ (VerifyDone /\ \A k \in 1..Len(Signatures) : OfAnotherDomain(k)) =>
        result = Ok(Neutral(from_domain))

(* A failed signature, then a valid one of another domain: Fail stands.    *)
C5_Witness ==
    /\ VerifyDone /\ Len(trace) = 2
    /\ trace[1].kind = "recorded" /\ OfAnotherDomain(2)
    /\ last_error = trace[1].last_error
    /\ result.ok /\ result.val.kind = "fail"

---------------------------------------------------------------------------
(* Sign, then verify *)

Name_from == <<"f","r","o","m">>

SignedHeaderLists ==
    {<<Name_From>>, <<Name_From, Name_Subject>>, <<Name_Subject, Name_from, Name_From>>}

SignedMails ==
    {CoreMail,
     [headers |-> <<Line(Name_Subject, Text("hi")), Line(Name_from, Text("joe@ex.net")),
                    Line(Name_From, Text("ann@ex.net"))>>,
      body |-> [text |-> "hello", line_end_wsp |-> TRUE, trailing_empty_lines |-> FALSE]]}

Signers ==
    {DKIMSigner(sh, key, Str_sel, domain, hc, bc, expiry, time) :
        sh \in SignedHeaderLists,
        key \in {RsaPrivateKey("k1"), Ed25519PrivateKey("k2")},
        domain \in {Str_ex_net, Str_EX_NET},
        hc \in {"Simple", "Relaxed"},
        bc \in {"Simple", "Relaxed"},
        expiry \in {None, Some(3600)},
        time \in {None, Some(1000)}}

InitSign ==
    /\ signer \in Signers
    /\ email \in SignedMails
    /\ now \in {1000, 2000}
    /\ op = "sign"
    /\ pc = "call"
    /\ signed = NotCalled
    /\ from_domain = <<>>
    /\ public_key = None
    /\ dns = "none"
    /\ idx = 0
    /\ last_error = None
    /\ result = NotCalled
    /\ trace = <<>>
    /\ IdleValidate

(* sign.rs 169-197: one call of DKIMSigner::sign *)
Sign ==
    /\ op = "sign" /\ pc = "call"
    /\ signed' = sign(signer, email, now)
    /\ pc' = "signed"
    /\ UNCHANGED <<op, value, now, validated, from_domain, email, public_key, dns,
                   idx, last_error, result, trace, signer>>

(* The returned line is put before the mail, and the mail is verified with *)
(* the public half of the signing key for the signing domain                *)
(* (lib.rs 356-434).                                                        *)
VerifySigned ==
    /\ op = "sign" /\ pc = "signed"
    /\ signed.ok
    /\ email' = [email EXCEPT !.headers = <<signed.val>> \o @]
    /\ from_domain' = signer.signing_domain
    /\ public_key' = Some(PublicKeyOf(signer.private_key))
    /\ result' = verify_email_with_key(from_domain', email', public_key'.val, now)
    /\ pc' = "done"
    /\ UNCHANGED <<op, value, now, validated, dns, idx, last_error, trace, signer, signed>>

NextSign == Sign \/ VerifySigned

SpecSign == InitSign /\ [][NextSign]_vars

(* C1: for every signer configuration, with or without explicit time and   *)
(* expiry, sign succeeds, and the mail with the returned line before it    *)
(* verifies with the matching public key and the signing domain: Ok(Pass). *)
C1_SignThenVerifyPasses ==
    op = "sign" =>
        /\ pc \in {"signed", "done"} => signed.ok
        /\ pc = "done" =>
               result = Ok(Pass(signer.signing_domain, signer.header_canonicalization,
                                signer.body_canonicalization))

---------------------------------------------------------------------------
(* The signer's builder *)

(* sign.rs 28-43: SignerBuilder::new *)
SignerBuilder_new ==
    [built |-> FALSE,
     signed_headers |-> None,
     private_key |-> None,
     selector |-> None,
     signing_domain |-> None,
     time |-> None,
     header_canonicalization |-> "Simple",
     body_canonicalization |-> "Simple",
     logger |-> None,
     expiry |-> None]

(* sign.rs 47-55: with_signed_headers *)
with_signed_headers(b, headers) ==
    IF \A k \in 1..Len(headers) : to_lowercase(headers[k]) # Str_from
    THEN Err(BuilderError)
    ELSE Ok([b EXCEPT !.signed_headers = Some(headers)])

(* sign.rs 58-105: the setters that cannot fail *)
with_private_key(b, key) == [b EXCEPT !.private_key = Some(key)]
with_selector(b, v) == [b EXCEPT !.selector = Some(v)]
with_signing_domain(b, v) == [b EXCEPT !.signing_domain = Some(v)]
with_header_canonicalization(b, v) == [b EXCEPT !.header_canonicalization = v]
with_body_canonicalization(b, v) == [b EXCEPT !.body_canonicalization = v]
with_logger(b, logger) == [b EXCEPT !.logger = Some(logger)]
with_time(b, v) == [b EXCEPT !.time = Some(v)]
with_expiry(b, v) == [b EXCEPT !.expiry = Some(v)]

SignerBuilder_build_withoutLogger(b) ==
    IF ~b.private_key.some THEN Err(BuilderError)
    ELSE IF ~b.signed_headers.some THEN Err(BuilderError)
    ELSE IF ~b.selector.some THEN Err(BuilderError)
    ELSE IF ~b.signing_domain.some THEN Err(BuilderError)
    ELSE Ok(DKIMSigner(b.signed_headers.val, b.private_key.val, b.selector.val,
                       b.signing_domain.val, b.header_canonicalization,
                       b.body_canonicalization, b.expiry, b.time))

(* sign.rs 110-141: build, the fields asked for in the order of the code *)
SignerBuilder_build(b) ==
    IF ~b.private_key.some THEN Err(BuilderError)
    ELSE IF ~b.signed_headers.some THEN Err(BuilderError)
    ELSE IF ~b.selector.some THEN Err(BuilderError)
    ELSE IF ~b.logger.some THEN Err(BuilderError)
    ELSE IF ~b.signing_domain.some THEN Err(BuilderError)
    ELSE Ok(DKIMSigner(b.signed_headers.val, b.private_key.val, b.selector.val,
                       b.signing_domain.val, b.header_canonicalization,
                       b.body_canonicalization, b.expiry, b.time))

HeaderLists ==
    {<<Name_From>>, <<Name_Subject, Name_from>>, <<Name_Subject>>, <<>>,
     <<<<"F","r","o","m","a","g","e">>, Name_Subject>>}

(* The call made last on the builder, and whether it went through. *)
Called(call, arg, ok) == [call |-> call, arg |-> arg, ok |-> ok]

InitBuilder ==
    /\ op = "SignerBuilder"
    /\ pc = "building"
    /\ signer = SignerBuilder_new
    /\ signed = NotCalled
    /\ email = CoreMail
    /\ now = 1000
    /\ from_domain = <<>>
    /\ public_key = None
    /\ dns = "none"
    /\ idx = 0
    /\ last_error = None
    /\ result = NotCalled
    /\ trace = <<>>
    /\ IdleValidate

Building == op = "SignerBuilder" /\ pc = "building"

(* A setter moved the builder on. *)
BuilderSet(call, arg, b) ==
    /\ signer' = b
    /\ trace' = <<Called(call, arg, TRUE)>>
    /\ UNCHANGED <<op, pc, value, now, validated, from_domain, email, public_key, dns,
                   idx, last_error, result, signed>>

(* sign.rs 47-55: the builder is moved into the call and lost on Err *)
WithSignedHeaders ==
    /\ Building
    /\ \E headers \in HeaderLists :
           LET r == with_signed_headers(signer, headers)
           IN  IF r.ok THEN BuilderSet("with_signed_headers", headers, r.val)
               ELSE /\ result' = r
                    /\ pc' = "failed"
                    /\ trace' = <<Called("with_signed_headers", headers, FALSE)>>
                    /\ UNCHANGED <<op, value, now, validated, from_domain, email,
                                   public_key, dns, idx, last_error, signer, signed>>

WithPrivateKey ==
    /\ Building
    /\ \E key \in {RsaPrivateKey("k1"), Ed25519PrivateKey("k2")} :
           BuilderSet("with_private_key", key, with_private_key(signer, key))

WithSelector ==
    Building /\ BuilderSet("with_selector", Str_sel, with_selector(signer, Str_sel))

WithSigningDomain ==
    /\ Building
    /\ \E domain \in {Str_ex_net, Str_other_org} :
           BuilderSet("with_signing_domain", domain, with_signing_domain(signer, domain))

WithHeaderCanonicalization ==
    /\ Building
    /\ BuilderSet("with_header_canonicalization", "Relaxed",
                  with_header_canonicalization(signer, "Relaxed"))

WithBodyCanonicalization ==
    /\ Building
    /\ BuilderSet("with_body_canonicalization", "Relaxed",
                  with_body_canonicalization(signer, "Relaxed"))

WithLogger ==
    Building /\ BuilderSet("with_logger", "logger", with_logger(signer, "logger"))

WithTime ==
    Building /\ BuilderSet("with_time", 500, with_time(signer, 500))

WithExpiry ==
    Building /\ BuilderSet("with_expiry", 3600, with_expiry(signer, 3600))

(* sign.rs 110-141: build consumes the builder *)
Build ==
    /\ Building
    /\ result' = SignerBuilder_build(signer)
    /\ pc' = "built"
    /\ UNCHANGED <<op, value, now, validated, from_domain, email, public_key, dns,
                   idx, last_error, trace, signer, signed>>

(* sign.rs 169-197: the signer that was built signs a mail *)
BuiltSign ==
    /\ op = "SignerBuilder" /\ pc = "built"
    /\ result.ok
    /\ signed' = sign(result.val, email, now)
    /\ pc' = "signed"
    /\ UNCHANGED <<op, value, now, validated, from_domain, email, public_key, dns,
                   idx, last_error, result, trace, signer>>

NextBuilder ==
    \/ WithSignedHeaders \/ WithPrivateKey \/ WithSelector \/ WithSigningDomain
    \/ WithHeaderCanonicalization \/ WithBodyCanonicalization \/ WithLogger
    \/ WithTime \/ WithExpiry \/ Build \/ BuiltSign

SpecBuilder == InitBuilder /\ [][NextBuilder]_vars

(* Properties of the builder *)

BuilderOp == op = "SignerBuilder"
HasFromName(headers) == \E k \in 1..Len(headers) : EqualIgnoringCase(headers[k], Str_from)
AllRequiredSet ==
    /\ signer.signed_headers.some /\ signer.private_key.some /\ signer.selector.some
    /\ signer.logger.some /\ signer.signing_domain.some
TagValueOf(raw, name) ==
    LET at == {k \in 1..Len(raw.specs) : raw.specs[k].name = name}
    IN  IF at = {} THEN None ELSE Some(raw.specs[CHOOSE k \in at : \A j \in at : j <= k].value)

(* C11: build() gives a DKIMSigner exactly when signed headers, private    *)
(* key, selector, logger and signing domain are all set, and BuilderError  *)
(* otherwise; with_signed_headers gives BuilderError exactly when no       *)
(* listed name is from ignoring case; every signer built has From among    *)
(* its signed headers and every header it emits has from in h=.            *)
C11_BuildNeedsAllFive ==
    BuilderOp =>
        /\ pc \in {"built", "signed"} =>
            /\ result.ok <=> AllRequiredSet
            /\ ~result.ok => result = Err(BuilderError)
            /\ result.ok => HasFromName(result.val.signed_headers)
        /\ (trace # <<>> /\ trace[1].call = "with_signed_headers") =>
            (trace[1].ok <=> HasFromName(trace[1].arg))
        /\ pc = "failed" => result = Err(BuilderError)
        /\ (pc = "signed" /\ signed.ok) =>
            HasFromElement(TagValueOf(signed.val.value, "h").val)

(* A signer was built after the logger was set last, and signed a mail. *)
C11_Witness ==
    /\ BuilderOp /\ pc = "signed" /\ signed.ok
    /\ trace = <<Called("with_logger", "logger", TRUE)>>
    /\ signer.signed_headers = Some(<<Name_Subject, Name_from>>)

---------------------------------------------------------------------------
(* Properties of the signer *)

Signing == op = "sign"
SignDone == Signing /\ pc \in {"signed", "done"}

(* C12: a signer with an expiry signs successfully, and the header it      *)
(* emits has t= and an x= that is t= plus the duration in seconds, the     *)
(* time being set on the header builder before the expiry is asked for.    *)
C12_ExpiryAfterTime ==
    (SignDone /\ signer.expiry.some) =>
        /\ signed.ok
        /\ TagValueOf(signed.val.value, "t").some
        /\ TagValueOf(signed.val.value, "x").some
        /\ TagValueOf(signed.val.value, "x").val
             = to_string(DecimalValue(TagValueOf(signed.val.value, "t").val)
                         + signer.expiry.val)

---------------------------------------------------------------------------
(* Signing twice *)

InitSignTwice ==
    /\ signer \in Signers
    /\ email \in SignedMails
    /\ now = 1000
    /\ op = "sign_twice"
    /\ pc = "call"
    /\ signed = NotCalled
    /\ from_domain = <<>>
    /\ public_key = None
    /\ dns = "none"
    /\ idx = 0
    /\ last_error = None
    /\ result = NotCalled
    /\ trace = <<>>
    /\ IdleValidate

(* sign.rs 169-197: the first call, at the clock it read (sign.rs 201) *)
SignFirst ==
    /\ op = "sign_twice" /\ pc = "call"
    /\ signed' = sign(signer, email, now)
    /\ trace' = <<[clock |-> now]>>
    /\ pc' = "signed"
    /\ UNCHANGED <<op, value, now, validated, from_domain, email, public_key, dns,
                   idx, last_error, result, signer>>

(* sign.rs 169-197: the second call of the same signer on the same mail,   *)
(* within the same second or later.                                         *)
SignSecond ==
    /\ op = "sign_twice" /\ pc = "signed"
    /\ \E clock \in {now, now + 1000} :
           /\ now' = clock
           /\ result' = sign(signer, email, clock)
    /\ pc' = "done"
    /\ UNCHANGED <<op, value, validated, from_domain, email, public_key, dns,
                   idx, last_error, trace, signer, signed>>

NextSignTwice == SignFirst \/ SignSecond

SpecSignTwice == InitSignTwice /\ [][NextSignTwice]_vars

SignedTwice == op = "sign_twice" /\ pc = "done"

(* C13: two sign calls of one signer on one mail return the same line when *)
(* the time was supplied with with_time, whatever the clock of each call,  *)
(* for RSA and for Ed25519; without a supplied time they return the same   *)
(* line when the clock read is the same.                                    *)
C13_SignDeterministic ==
    SignedTwice =>
        /\ signer.time.some => result = signed
        /\ now = trace[1].clock => result = signed

(* An Ed25519 signer with a supplied time signed at two different clocks   *)
(* and returned one line.                                                   *)
C13_Witness ==
    /\ SignedTwice
    /\ signer.time.some /\ signer.private_key.variant = "Ed25519"
    /\ now # trace[1].clock
    /\ signed.ok /\ result = signed

(* C14: the algorithm of a built signer is fixed by its key, RsaSha256     *)
(* for an RSA key and Ed25519Sha256 for an Ed25519 key, and so is the a=   *)
(* of the headers it emits; no built signer has RsaSha1, and sign never    *)
(* returns UnsupportedHashAlgorithm.                                        *)
C14_AlgorithmFixedByKey ==
    (BuilderOp /\ pc \in {"built", "signed"} /\ result.ok) =>
        LET rsa == result.val.private_key.variant = "Rsa"
        IN  /\ result.val.hash_algo = IF rsa THEN "RsaSha256" ELSE "Ed25519Sha256"
            /\ result.val.hash_algo # "RsaSha1"
            /\ pc = "signed" =>
                /\ signed # Err(UnsupportedHashAlgorithm)
                /\ signed.ok =>
                    TagValueOf(signed.val.value, "a")
                        = Some(IF rsa THEN Str_rsa_sha256 ELSE Str_ed25519_sha256)

(* A signer built with an Ed25519 key emitted a header. *)
C14_Witness ==
    /\ BuilderOp /\ pc = "signed" /\ signed.ok
    /\ signer.private_key = Some(Ed25519PrivateKey("k2"))
    /\ TagValueOf(signed.val.value, "a") = Some(Str_ed25519_sha256)

---------------------------------------------------------------------------
(* verify_signature on its own *)

HashAlgos == {"RsaSha1", "RsaSha256", "Ed25519Sha256"}

(* Header hashes: of the signed headers of CoreMail under each digest. *)
HeaderHashes ==
    {compute_headers_hash("Simple", Str_from, a, [raw_bytes |-> GoodRsa], CoreMail).val :
        a \in {"RsaSha1", "RsaSha256"}}

(* Signature bytes: made over a header hash with an RSA or an Ed25519 key,  *)
(* or bytes of some length that are no signature.                           *)
SignatureBytes ==
    {rsa_sign(RsaPrivateKey(id), scheme, h) :
        id \in {"k1", "k3"}, scheme \in {"pkcs1v15-sha1", "pkcs1v15-sha256"},
        h \in HeaderHashes}
    \cup {ed25519_sign(Ed25519PrivateKey(id), h) : id \in {"k2", "k4"}, h \in HeaderHashes}
    \cup {RawBytes(10), RawBytes(64), RawBytes(256)}

InitVerifySignature ==
    /\ op = "verify_signature"
    /\ pc = "call"
    /\ value \in [hash_algo : HashAlgos, header_hash : HeaderHashes,
                  signature : SignatureBytes]
    /\ public_key \in {Some(PublicKeyOf(RsaPrivateKey("k1"))),
                       Some(PublicKeyOf(Ed25519PrivateKey("k2")))}
    /\ now = 1000
    /\ validated = NotCalled
    /\ from_domain = <<>>
    /\ email = NoEmail
    /\ dns = "none"
    /\ idx = 0
    /\ last_error = None
    /\ result = NotCalled
    /\ trace = <<>>
    /\ IdleSigner

(* lib.rs 209-236: one call of verify_signature *)
VerifySignature ==
    /\ op = "verify_signature" /\ pc = "call"
    /\ result' = verify_signature(value.hash_algo, value.header_hash, value.signature,
                                  public_key.val)
    /\ pc' = "done"
    /\ UNCHANGED <<op, value, now, validated, from_domain, email, public_key, dns,
                   idx, last_error, trace, signer, signed>>

NextVerifySignature == VerifySignature

SpecVerifySignature == InitVerifySignature /\ [][NextVerifySignature]_vars

VerifySignatureDone == op = "verify_signature" /\ pc = "done"

(* The (key type, algorithm) pairs of the specification. *)
SupportedPair ==
    <<public_key.val.variant, value.hash_algo>>
        \in {<<"Rsa", "RsaSha1">>, <<"Rsa", "RsaSha256">>, <<"Ed25519", "Ed25519Sha256">>}

(* C15: verify_signature returns UnsupportedHashAlgorithm for every pair   *)
(* of key type and algorithm other than (RSA, rsa-sha1), (RSA, rsa-sha256) *)
(* and (Ed25519, ed25519-sha256), and for none of these three.              *)
C15_OnlyThreePairs ==
    VerifySignatureDone =>
        (result = Err(UnsupportedHashAlgorithm) <=> ~SupportedPair)

---------------------------------------------------------------------------
(* DkimPublicKey::try_from_bytes on its own *)

(* The key types of lib.rs 667-696 and their spellings, and some others. *)
KeyTypeNames ==
    {Str_rsa, <<"R","S","A">>, <<"R","s","a">>,
     Str_ed25519, <<"E","D","2","5","5","1","9">>, <<"E","d","2","5","5","1","9">>,
     <<"u","n","s","u","p","p","o","r","t","e","d">>, <<"d","s","a">>, <<>>,
     <<"r","s","a"," ">>, <<"e","d","4","4","8">>, <<"r","s">>}

(* Key bytes: the encodings of an RSA and of an Ed25519 key, and bytes     *)
(* of several lengths that encode no key (lib.rs 674-676: vec![0u8; 16]).  *)
(* What bytes that encode no key hold in the place of one. *)
NoKey == [variant |-> "none", id |-> "none"]

KeyByteValues ==
    {to_vec(PublicKeyOf(RsaPrivateKey("k1"))),
     to_vec(PublicKeyOf(Ed25519PrivateKey("k2"))),
     KeyBytes("none", 0, NoKey), KeyBytes("none", 16, NoKey),
     KeyBytes("none", 31, NoKey), KeyBytes("none", 32, NoKey),
     KeyBytes("none", 33, NoKey), KeyBytes("none", 140, NoKey)}

InitKeyBytes ==
    /\ op = "try_from_bytes"
    /\ pc = "call"
    /\ value \in [bytes : KeyByteValues, key_type : KeyTypeNames]
    /\ now = 1000
    /\ validated = NotCalled
    /\ IdleVerifier
    /\ IdleSigner

(* lib.rs 78-87: one call of DkimPublicKey::try_from_bytes *)
TryFromBytes ==
    /\ op = "try_from_bytes" /\ pc = "call"
    /\ result' = try_from_bytes(value.bytes, value.key_type)
    /\ pc' = "done"
    /\ UNCHANGED <<op, value, now, validated, from_domain, email, public_key, dns,
                   idx, last_error, trace, signer, signed>>

NextKeyBytes == TryFromBytes

SpecKeyBytes == InitKeyBytes /\ [][NextKeyBytes]_vars

KeyBytesDone == op = "try_from_bytes" /\ pc = "done"
AskedRsa == EqualIgnoringCase(value.key_type, Str_rsa)
AskedEd25519 == EqualIgnoringCase(value.key_type, Str_ed25519)

(* C16: try_from_bytes takes the key type ignoring case; it returns        *)
(* KeyUnavailable for a type that is neither rsa nor ed25519, for Ed25519  *)
(* bytes that are not 32 long and for bytes that encode no key of the      *)
(* type, and no other error; a key it returns has the requested type in    *)
(* lower case as its key_type().                                            *)
C16_KeyFromBytes ==
    KeyBytesDone =>
        /\ ~result.ok => result = Err(KeyUnavailable)
        /\ ~(AskedRsa \/ AskedEd25519) => ~result.ok
        /\ (AskedEd25519 /\ value.bytes.len # 32) => ~result.ok
        /\ (AskedRsa /\ value.bytes.format # "pkcs1-der") => ~result.ok
        /\ (AskedEd25519 /\ value.bytes.format # "ed25519-raw") => ~result.ok
        /\ (AskedRsa /\ value.bytes.format = "pkcs1-der") => result.ok
        /\ (AskedEd25519 /\ value.bytes.format = "ed25519-raw" /\ value.bytes.len = 32)
               => result.ok
        /\ result.ok =>
            /\ EqualIgnoringCase(key_type(result.val), value.key_type)
            /\ \A k \in 1..Len(key_type(result.val)) :
                   \A u \in 1..Len(UpperChars) : key_type(result.val)[k] # UpperChars[u]

(* The 32 bytes of an Ed25519 key asked for as "ED25519" give the key. *)
C16_Witness ==
    /\ KeyBytesDone
    /\ value.key_type = <<"E","D","2","5","5","1","9">>
    /\ result = Ok(PublicKeyOf(Ed25519PrivateKey("k2")))

---------------------------------------------------------------------------
(* The order of the steps of verify_email_header *)

(* The k-th header passes validate_header, is of the caller's domain, has  *)
(* a c= and an a= that parse, and a bh= that is not the hash of the body.  *)
BodyHashMismatch(k) ==
    LET checked == validate_header(Signatures[k].value, now)
        canon == parse_canonicalization(get_tag(checked.val, "c"))
        hash_algo == parse_hash_algo(get_required_tag(checked.val, "a"))
    IN  /\ checked.ok
        /\ EqualIgnoringCase(get_required_tag(checked.val, "d"), from_domain)
        /\ canon.ok /\ hash_algo.ok
        /\ get_required_tag(checked.val, "bh")
             # compute_body_hash(canon.val[2], get_tag(checked.val, "l"),
                                 hash_algo.val, email).val

(* C17: in verify_email_with_resolver a validated signature of the         *)
(* caller's domain whose bh= does not match the body is recorded as        *)
(* BodyHashDidNotVerify with no key lookup made for it, whatever the TXT   *)
(* record of its key.                                                       *)
C17_BodyHashBeforeKey ==
    op = "verify_email_with_resolver" =>
        \A k \in 1..Len(trace) :
            BodyHashMismatch(k) =>
                /\ trace[k].kind = "recorded"
                /\ trace[k].last_error = Some(BodyHashDidNotVerify)
                /\ \A j \in 1..Len(trace[k].steps) :
                       trace[k].steps[j] # "retrieve_public_key"

---------------------------------------------------------------------------
(* Further properties of validate_header *)

(* d is the domain itself or a parent of it on a label boundary, ignoring  *)
(* case.                                                                    *)
SameOrParentDomain(d, domain) ==
    \/ EqualIgnoringCase(d, domain)
    \/ IsSuffixOf(<<".">> \o to_lowercase(d), to_lowercase(domain))

(* C18: a header with i= whose d= is neither the domain part of i= nor a   *)
(* parent domain of it on a label boundary is rejected with DomainMismatch *)
(* (the header having its required tags and v=1, which are checked         *)
(* first).                                                                  *)
C18_ParentDomainOnLabelBoundary ==
    (ValidateDone /\ AllRequiredPresent /\ LastValue("v") = Str_1 /\ Present("i")
        /\ ~SameOrParentDomain(LastValue("d"), DomainPart(LastValue("i")))) =>
        Rejected(DomainMismatch)

---------------------------------------------------------------------------
(* sign, step by step *)

(* The clock may move on between any two steps of a call. *)
ClockMoves == now' \in {now, now + 1}

StepDone(step, out) == [step |-> step, out |-> out]

InitSignSteps ==
    /\ signer \in Signers
    /\ email \in SignedMails
    /\ now = 1000
    /\ op = "sign_steps"
    /\ pc = "compute_body_hash"
    /\ signed = NotCalled
    /\ from_domain = <<>>
    /\ public_key = None
    /\ dns = "none"
    /\ idx = 0
    /\ last_error = None
    /\ result = NotCalled
    /\ trace = <<>>
    /\ IdleValidate

SignStep(step) == op = "sign_steps" /\ pc = step

(* A step that failed ends the call: the ? of sign.rs 170-194 *)
StepOutcome(step, out, next) ==
    /\ trace' = Append(trace, StepDone(step, out))
    /\ IF out.ok THEN pc' = next /\ UNCHANGED signed
       ELSE pc' = "signed" /\ signed' = out
    /\ ClockMoves
    /\ UNCHANGED <<op, value, validated, from_domain, email, public_key, dns, idx,
                   last_error, result, signer>>

(* sign.rs 170 *)
StepBodyHash ==
    /\ SignStep("compute_body_hash")
    /\ StepOutcome("compute_body_hash",
                   compute_body_hash(signer.body_canonicalization, None, signer.hash_algo,
                                     email),
                   "dkim_header_builder")

(* sign.rs 171: the clock is read here (sign.rs 201) *)
StepHeaderBuilder ==
    /\ SignStep("dkim_header_builder")
    /\ StepOutcome("dkim_header_builder",
                   dkim_header_builder(signer, trace[1].out.val, now),
                   "compute_header_hash")

(* sign.rs 173: a clone of the builder is given b="" and hashed *)
StepHeaderHash ==
    /\ SignStep("compute_header_hash")
    /\ LET dkim_header == build(add_tag(trace[2].out.val, "b", <<>>))
           out == compute_header_hash(signer, email, trace[2].out.val)
       IN  /\ trace' = Append(trace, [step |-> "compute_header_hash", out |-> out,
                                      dkim_header |-> dkim_header])
           /\ IF out.ok THEN pc' = "signature" /\ UNCHANGED signed
              ELSE pc' = "signed" /\ signed' = out
    /\ ClockMoves
    /\ UNCHANGED <<op, value, validated, from_domain, email, public_key, dns, idx,
                   last_error, result, signer>>

(* sign.rs 175-189 *)
StepSignature ==
    /\ SignStep("signature")
    /\ StepOutcome("signature", SignatureOf(signer, trace[3].out.val), "build")

StepBuild_rebuilt ==
    /\ SignStep("build")
    /\ LET builder == dkim_header_builder(signer, trace[1].out.val, now).val
           dkim_header == build(add_tag(builder, "b", base64_encode(trace[4].out.val)))
       IN  signed' = Ok([name |-> HEADER, value |-> dkim_header.val.raw_bytes])
    /\ pc' = "signed"
    /\ ClockMoves
    /\ UNCHANGED <<op, value, validated, from_domain, email, public_key, dns, idx,
                   last_error, result, trace, signer>>

(* sign.rs 192-196: the builder of sign.rs 171 is given the signature *)
StepBuild ==
    /\ SignStep("build")
    /\ LET dkim_header ==
               build(add_tag(trace[2].out.val, "b", base64_encode(trace[4].out.val)))
       IN  signed' = IF dkim_header.ok
                     THEN Ok([name |-> HEADER, value |-> dkim_header.val.raw_bytes])
                     ELSE dkim_header
    /\ pc' = "signed"
    /\ ClockMoves
    /\ UNCHANGED <<op, value, validated, from_domain, email, public_key, dns, idx,
                   last_error, result, trace, signer>>

NextSignSteps ==
    StepBodyHash \/ StepHeaderBuilder \/ StepHeaderHash \/ StepSignature \/ StepBuild

SpecSignSteps == InitSignSteps /\ [][NextSignSteps]_vars

SignStepsReturned == op = "sign_steps" /\ pc = "signed" /\ signed.ok

(* C19: in one sign call the header that was hashed and the header that is *)
(* returned have the same tags in the same order with the same values,     *)
(* the t= read from the clock included, but for b, which is the last tag   *)
(* of both, empty in the hashed header and the base64 text of the          *)
(* signature in the returned one.                                           *)
C19_TentativeAndFinalAgree ==
    SignStepsReturned =>
        LET hashed == trace[3].dkim_header.val.raw_bytes.specs
            returned == signed.val.value.specs
        IN  /\ Len(hashed) = Len(returned)
            /\ \A k \in 1..(Len(hashed) - 1) :
                   hashed[k] = returned[k] /\ hashed[k].name # "b"
            /\ hashed[Len(hashed)] = Tag("b", <<>>)
            /\ returned[Len(returned)] = Tag("b", base64_encode(trace[4].out.val))
            /\ trace[4].out.val.msg = trace[3].out.val

(* A signer without a supplied time returned a header while the clock      *)
(* moved on after the builder was made.                                     *)
C19_Witness ==
    /\ SignStepsReturned
    /\ ~signer.time.some
    /\ TagValueOf(signed.val.value, "t").some
    /\ now > DecimalValue(TagValueOf(signed.val.value, "t").val)

(* The number x= stands for: its decimal value, 0 when it is no number     *)
(* (lib.rs 194).                                                            *)
TimestampOf(s) ==
    IF s # <<>> /\ \A k \in 1..Len(s) : IsDigit(s[k]) THEN DecimalValue(s) ELSE 0

(* The checks of validate_header hold of the last value of each tag. *)
LastValuesValid ==
    /\ LastValue("v") = Str_1
    /\ Present("i") => IsSuffixOf(LastValue("d"), LastValue("i"))
    /\ HasFromElement(LastValue("h"))
    /\ Present("q") => LastValue("q") = Str_dns_txt
    /\ Present("x") => now <= TimestampOf(LastValue("x")) + 900

Repeats(name) ==
    \E j, k \in 1..Len(value.specs) :
        j # k /\ value.specs[j].name = name /\ value.specs[k].name = name

(* C20: the header validate_header returns has each tag name once, get_tag *)
(* gives the value of the last occurrence of a name in the input, the      *)
(* version, i=/d=, From, q= and x= checks are made against those last      *)
(* values, and raw_bytes is the input value.                                *)
C20_LastOccurrenceWins ==
    ValidateDone =>
        /\ validated.ok =>
            /\ \A j, k \in 1..Len(validated.val.tags) :
                   j # k => validated.val.tags[j].name # validated.val.tags[k].name
            /\ \A name \in Fields :
                   get_tag(validated.val, name)
                       = IF Present(name) THEN Some(LastValue(name)) ELSE None
            /\ validated.val.raw_bytes = value
        /\ AllRequiredPresent => (validated.ok <=> LastValuesValid)

(* v=3 first and v=1 last: the header is accepted with v=1. *)
C20_Witness ==
    /\ ValidateDone /\ validated.ok
    /\ Repeats("v")
    /\ value.specs[1] = Tag("v", Str_3)
    /\ get_tag(validated.val, "v") = Some(Str_1)

---------------------------------------------------------------------------
(* Key lookups *)

(* How many public-key retrievals the pass over the k-th header made. *)
LookupsOf(k) ==
    Cardinality({j \in 1..Len(trace[k].steps) : trace[k].steps[j] = "retrieve_public_key"})

(* The k-th header passes validate_header and is of the caller's domain. *)
ValidOfCallerDomain(k) ==
    LET checked == validate_header(Signatures[k].value, now)
    IN  /\ checked.ok
        /\ EqualIgnoringCase(get_required_tag(checked.val, "d"), from_domain)

IsPass(k) ==
    trace[k].kind = "returned" /\ result.ok /\ result.val.kind = "pass"

(* C21: verify_email_with_resolver retrieves the public key once for each  *)
(* header that passes validation and is of the caller's domain, in         *)
(* document order up to and including the first that yields Pass, and not  *)
(* at all for a header that fails validation or is skipped, nor after a    *)
(* Pass; verify_email_with_key retrieves none.                              *)
C21_OneLookupPerSelectedSignature ==
    VerifyDone =>
        /\ \A k \in 1..Len(trace) :
               /\ trace[k].index = k
               /\ k < Len(trace) => trace[k].kind # "returned"
               /\ IF op = "verify_email_with_resolver"
                  THEN LookupsOf(k) = IF ValidOfCallerDomain(k) THEN 1 ELSE 0
                  ELSE LookupsOf(k) = 0
        /\ (op = "verify_email_with_resolver"
               /\ (trace = <<>> \/ trace[Len(trace)].kind # "returned"))
              => Len(trace) = Len(Signatures)

(* The key was retrieved for a signature that did not verify and again for *)
(* the next one, which passed.                                              *)
C21_Witness ==
    /\ VerifyDone /\ op = "verify_email_with_resolver"
    /\ Len(trace) = 2
    /\ trace[1].kind = "recorded" /\ LookupsOf(1) = 1
    /\ IsPass(2) /\ LookupsOf(2) = 1

============================================================================
